---- MODULE Spec2Model ----
(***************************************************************************)
(* A model of unbarrelify: the file analyzer, the rewrite builder, the     *)
(* barrel tracker and the orchestrating loop of processFiles.              *)
(*                                                                         *)
(* Source text is abstracted to the list of its top-level statements; the  *)
(* position span of a statement is its index in that list (distinct        *)
(* statements have distinct spans, which is all the code relies on).       *)
(* A module specifier is kept as text: a project-relative path, a path     *)
(* alias ("@/...") or a package name; resolveModule maps it to a file.     *)
(***************************************************************************)
EXTENDS Integers, Sequences, FiniteSets, TLC

\* undefined / empty string of the TypeScript code
NoStr == ""

-----------------------------------------------------------------------------
(* The files of the modelled projects *)

Cons1 == "c1.ts"
Cons2 == "c2.ts"
ConsJs == "c3.js"
BarA  == "index.ts"
BarB  == "lib/index.ts"
BarC  == "lib/sub/index.ts"
Def1  == "lib/d1.ts"
Def2  == "lib/d2.ts"
Vue   == "page.vue"
DistA == "dist/index.js"

Files == {Cons1, Cons2, ConsJs, BarA, BarB, BarC, Def1, Def2, Vue}

\* package specifiers
Externals == {"pkg"}

\* path-alias specifiers and the files tsconfig "paths" maps them to
AliasB == "@/lib/index"
AliasTarget == [s \in {AliasB} |-> BarB]

\* paths matched by IGNORED_PATH_PATTERN or BUILD_OUTPUT_DIRS
IgnoredPaths == {"lib/types.d.ts"}

\* index.* files that sit at the root of a workspace
RootIndexFiles == {BarA}

\* bounds of the model
MaxStmts == 2
MaxDepth == 6

-----------------------------------------------------------------------------
(* Statements *)

Nm(n, al, ty) == [name |-> n, alias |-> al, isType |-> ty]

Stmt(k, cl, sp, ty, d, n, nm) ==
  [kind |-> k, clause |-> cl, spec |-> sp, typeOnly |-> ty,
   dflt |-> d, ns |-> n, named |-> nm]

\* import { ... } from "sp"
ImportNamed(sp, nm)   == Stmt("import", "named", sp, FALSE, NoStr, NoStr, nm)
\* import d from "sp"
ImportDefault(sp, d)  == Stmt("import", "none", sp, FALSE, d, NoStr, <<>>)
\* import * as n from "sp"
ImportNs(sp, n)       == Stmt("import", "ns", sp, FALSE, NoStr, n, <<>>)
\* export { ... } from "sp"
ExportNamed(sp, nm)   == Stmt("export", "named", sp, FALSE, NoStr, NoStr, nm)
\* export * from "sp"
ExportStar(sp)        == Stmt("export", "star", sp, FALSE, NoStr, NoStr, <<>>)
\* export { ... }  (an export declaration without module specifier)
ExportLocal(nm)       == Stmt("export", "named", NoStr, FALSE, NoStr, NoStr, nm)
\* export const/function/class n ...
Decl(n)               == Stmt("decl", "named", NoStr, FALSE, NoStr, NoStr, <<Nm(n, NoStr, FALSE)>>)
\* export default ...
DeclDefault           == Stmt("decl", "default", NoStr, FALSE, NoStr, NoStr, <<>>)
\* a statement holding the call import("sp")
Dynamic(sp)           == Stmt("dynamic", "none", sp, FALSE, NoStr, NoStr, <<>>)

\* element.name.text and element.propertyName?.text of an import/export specifier
ElemName(n) == IF n.alias # NoStr THEN n.alias ELSE n.name
ElemProp(n) == IF n.alias # NoStr THEN n.name ELSE NoStr

-----------------------------------------------------------------------------
(* Sequence helpers *)

RECURSIVE SeqToSet(_)
SeqToSet(s) == IF s = <<>> THEN {} ELSE {Head(s)} \cup SeqToSet(Tail(s))

RECURSIVE SetToSeq(_)
SetToSeq(S) == IF S = {} THEN <<>>
               ELSE LET x == CHOOSE y \in S : TRUE IN <<x>> \o SetToSeq(S \ {x})

\* index of the entry of an ordered map (a sequence of records with `key`), 0 if absent
IndexOf(m, k) ==
  IF \E j \in 1..Len(m) : m[j].key = k
  THEN CHOOSE j \in 1..Len(m) : m[j].key = k
  ELSE 0

-----------------------------------------------------------------------------
(* State *)

VARIABLES
  project,      \* file path -> list of top-level statements (the input; never changes)
  opts,         \* Options / Context: skip, package.json entries, only, flags
  files,        \* the project file list processFiles iterates over
  idx,          \* loop index i of processFiles (1-based: next file to process)
  phase,        \* position in unbarrelify / processFiles
  fileCache,    \* ctx.fileCache: path -> "none" | "analyzed" | "explicit"
  tracker,      \* BarrelTracker: registration order and per-barrel consumer sets
  untraceableImports, \* tracker.untraceableImports
  modified,     \* Result.modified
  content,      \* path -> statements of the rewritten text produced by applyRewrites
  errors,       \* files whose processing threw
  deleted,      \* Result.deleted
  preserved,    \* Result.preserved
  disk,         \* side effects: files written and files unlinked
  env,          \* the file system's faults: files that cannot be read, written, unlinked
  sourceFileCache, \* analyzer.ts sourceFileCache: path -> "none" | "original" | "rewritten"
  dryRun,       \* what a preceding dry run on a copy of the project reported, if any
  plan          \* path -> the rewrites that buildRewrites returned for the file

vars == <<project, opts, files, idx, phase, fileCache, tracker, untraceableImports,
          modified, content, errors, deleted, preserved, disk, env, sourceFileCache,
          dryRun, plan>>

-----------------------------------------------------------------------------
(* resolver.ts and constants.ts *)

isAbsolute(p) == p \in Files \cup IgnoredPaths

\* a specifier text that starts with "."
StartsWithDot(spec) == spec \in Files \cup IgnoredPaths

resolveModule(specifier) ==
  IF StartsWithDot(specifier) THEN specifier
  ELSE IF specifier \in DOMAIN AliasTarget THEN AliasTarget[specifier]
  ELSE IF specifier \in Externals THEN specifier
  ELSE NoStr

isIgnoredPath(filePath) == filePath \in IgnoredPaths

startsWithBase(filePath) == filePath \in Files \cup IgnoredPaths

-----------------------------------------------------------------------------
(* analyzer.ts *)

checkIsBarrel(stmts) ==
  Len(stmts) > 0 /\ \A j \in 1..Len(stmts) : stmts[j].kind = "export"

extractExportedNames(stmts) ==
  UNION { IF stmts[j].kind = "decl"
            THEN IF stmts[j].clause = "default" THEN {"default"}
                 ELSE {stmts[j].named[e].name : e \in DOMAIN stmts[j].named}
          ELSE IF stmts[j].kind = "export" /\ stmts[j].clause = "named"
            THEN {ElemName(stmts[j].named[e]) : e \in DOMAIN stmts[j].named}
          ELSE {} : j \in 1..Len(stmts) }

\* text.slice(start, end) on a text held as a list of statements: offsets are
\* counted in statements and clamped to the length of the text
slice(text, start, end) ==
  SubSeq(text, (IF start < Len(text) THEN start ELSE Len(text)) + 1,
               IF end < Len(text) THEN end ELSE Len(text))

\* the loop of applyRewrites over the spans in the order it is given them:
\* `content = content.slice(0, start) + replacement + content.slice(end)`,
\* statement j of the original text being the span [j - 1, j)
RECURSIVE applySplices(_, _, _)
applySplices(text, spans, q) ==
  IF q > Len(spans) THEN text
  ELSE applySplices(slice(text, 0, spans[q].key - 1) \o spans[q].stmts
                      \o slice(text, spans[q].key, Len(text)),
                    spans, q + 1)

\* the text that write(filePath, content) left on disk
writtenText(filePath) == applySplices(project[filePath], content[filePath], 1)

\* readFile(filePath) at this point of the run
readSource(filePath) ==
  IF filePath \in disk.written THEN writtenText(filePath) ELSE project[filePath]

\* getExportedNames parses the file on first use and keeps it in sourceFileCache
getExportedNames(filePath) ==
  extractExportedNames(
    CASE sourceFileCache[filePath] = "original"  -> project[filePath]
      [] sourceFileCache[filePath] = "rewritten" -> writtenText(filePath)
      [] OTHER -> readSource(filePath))

mergeExport(exports, path, data) ==
  LET k == IndexOf(exports, path) IN
  IF k = 0 THEN Append(exports, data)
  ELSE LET existing == exports[k] IN
       [exports EXCEPT ![k] =
          [existing EXCEPT
             !.exportedNames = existing.exportedNames \cup data.exportedNames,
             !.aliasedDefaults =
                [n \in DOMAIN existing.aliasedDefaults \cup DOMAIN data.aliasedDefaults |->
                   "default"],
             !.exportedAsDefault =
                IF data.exportedAsDefault # NoStr /\ existing.exportedAsDefault = NoStr
                THEN data.exportedAsDefault ELSE existing.exportedAsDefault,
             !.reExportedNs =
                IF data.reExportedNs # NoStr /\ existing.reExportedNs = NoStr
                THEN data.reExportedNs ELSE existing.reExportedNs]]

processLocalExport(exports, node, resolvedPath, pos) ==
  IF node.clause = "named"
  THEN LET asDefault == {e \in DOMAIN node.named :
                           ElemName(node.named[e]) = "default" /\ ElemProp(node.named[e]) # NoStr}
           last == CHOOSE e \in asDefault : \A f \in asDefault : f <= e
       IN mergeExport(exports, resolvedPath,
            [key |-> resolvedPath, pos |-> pos,
             exportedNames |-> {ElemName(node.named[e]) : e \in DOMAIN node.named},
             reExportedNs |-> NoStr,
             externalSpecifier |-> NoStr,
             aliasedDefaults |->
               [n \in {ElemName(node.named[e]) :
                         e \in {f \in DOMAIN node.named : ElemProp(node.named[f]) = "default"}}
                  |-> "default"],
             exportedAsDefault |->
               IF asDefault = {} THEN NoStr ELSE ElemProp(node.named[last])])
  ELSE mergeExport(exports, resolvedPath,
            [key |-> resolvedPath, pos |-> pos,
             exportedNames |-> getExportedNames(resolvedPath),
             reExportedNs |-> IF node.clause = "nsexport" THEN node.ns ELSE NoStr,
             externalSpecifier |-> IF StartsWithDot(node.spec) THEN NoStr ELSE node.spec,
             aliasedDefaults |-> [n \in {} |-> "default"],
             exportedAsDefault |-> NoStr])

processExternalExport(exports, node, pos) ==
  LET data == [key |-> node.spec, pos |-> pos,
               exportedNames |-> IF node.clause = "named"
                                 THEN {ElemName(node.named[e]) : e \in DOMAIN node.named}
                                 ELSE {},
               reExportedNs |-> IF node.clause = "nsexport" THEN node.ns ELSE NoStr,
               externalSpecifier |-> node.spec,
               aliasedDefaults |-> [n \in {} |-> "default"],
               exportedAsDefault |-> NoStr]
      k == IndexOf(exports, node.spec)
  IN IF k = 0 THEN Append(exports, data) ELSE [exports EXCEPT ![k] = data]

RECURSIVE buildExportMapFrom(_, _, _)
buildExportMapFrom(stmts, j, exports) ==
  IF j > Len(stmts) THEN exports
  ELSE LET node == stmts[j]
           resolvedPath == resolveModule(node.spec)
       IN IF node.kind # "export" \/ node.spec = NoStr \/ resolvedPath = NoStr
          THEN buildExportMapFrom(stmts, j + 1, exports)
          ELSE IF isAbsolute(resolvedPath)
          THEN buildExportMapFrom(stmts, j + 1, processLocalExport(exports, node, resolvedPath, j))
          ELSE buildExportMapFrom(stmts, j + 1, processExternalExport(exports, node, j))

buildExportMap(stmts) == buildExportMapFrom(stmts, 1, <<>>)

addToImportMap(imports, filePath, item) ==
  LET k == IndexOf(imports, filePath) IN
  IF k = 0 THEN Append(imports, [key |-> filePath, items |-> <<item>>])
  ELSE [imports EXCEPT ![k].items = Append(@, item)]

ImportItem(n, nms, ty, pos) == [name |-> n, names |-> nms, type |-> ty, pos |-> pos]

RECURSIVE addNamedItems(_, _, _, _, _, _)
addNamedItems(imports, resolvedPath, node, pos, e, isExport) ==
  IF e > Len(node.named) THEN imports
  ELSE LET el == node.named[e]
           hasAlias == el.alias # NoStr
           item == ImportItem(NoStr,
                     <<Nm(el.name, el.alias, el.isType \/ node.typeOnly)>>,
                     IF isExport THEN "export" ELSE IF hasAlias THEN "as" ELSE "named",
                     pos)
       IN addNamedItems(addToImportMap(imports, resolvedPath, item),
                        resolvedPath, node, pos, e + 1, isExport)

processImportDeclaration(imports, node, pos) ==
  LET resolvedPath == resolveModule(node.spec) IN
  IF resolvedPath = NoStr \/ ~isAbsolute(resolvedPath) THEN imports
  ELSE IF node.clause = "none" /\ node.dflt = NoStr THEN imports
  ELSE LET afterBindings ==
             IF node.clause = "ns"
             THEN addToImportMap(imports, resolvedPath, ImportItem(node.ns, <<>>, "ns", pos))
             ELSE IF node.clause = "named"
             THEN addNamedItems(imports, resolvedPath, node, pos, 1, FALSE)
             ELSE imports
       IN IF node.dflt # NoStr
          THEN addToImportMap(afterBindings, resolvedPath,
                              ImportItem(node.dflt, <<>>, "default", pos))
          ELSE afterBindings

processReExportDeclaration(imports, node, pos) ==
  LET resolvedPath == resolveModule(node.spec) IN
  IF resolvedPath = NoStr \/ ~isAbsolute(resolvedPath) THEN imports
  ELSE IF node.clause = "named"
  THEN addNamedItems(imports, resolvedPath, node, pos, 1, TRUE)
  ELSE addToImportMap(imports, resolvedPath, ImportItem("*", <<>>, "export", pos))

RECURSIVE buildImportMapFrom(_, _, _)
buildImportMapFrom(stmts, j, imports) ==
  IF j > Len(stmts) THEN imports
  ELSE LET node == stmts[j] IN
       IF node.kind = "import" /\ node.spec # NoStr
       THEN buildImportMapFrom(stmts, j + 1, processImportDeclaration(imports, node, j))
       ELSE IF node.kind = "export" /\ node.spec # NoStr
       THEN buildImportMapFrom(stmts, j + 1, processReExportDeclaration(imports, node, j))
       ELSE buildImportMapFrom(stmts, j + 1, imports)

buildImportMap(stmts) == buildImportMapFrom(stmts, 1, <<>>)

findDynamicImports(stmts) ==
  { resolveModule(stmts[j].spec) :
      j \in {q \in 1..Len(stmts) : stmts[q].kind = "dynamic"
                                   /\ resolveModule(stmts[q].spec) # NoStr
                                   /\ isAbsolute(resolveModule(stmts[q].spec))} }

\* the File record analyzeFile builds from the text of filePath
parseFile(filePath) ==
  LET stmts == project[filePath]
      isB == checkIsBarrel(stmts)
  IN [isBarrel |-> isB,
      exports |-> buildExportMap(stmts),
      imports |-> buildImportMap(stmts),
      dynamicImports |-> IF isB THEN {} ELSE findDynamicImports(stmts)]

\* the File record registerExplicitBarrels stores for a barrel selected with --only
explicitFile(filePath) ==
  [isBarrel |-> TRUE,
   exports |-> buildExportMap(project[filePath]),
   imports |-> <<>>,
   dynamicImports |-> {}]

\* the files whose exported names buildExportMap asks for while it parses filePath:
\* the project files of its `export *` and `export * as ns` declarations
exportReads(filePath) ==
  { resolveModule(project[filePath][j].spec) :
      j \in { q \in 1..Len(project[filePath]) :
                /\ project[filePath][q].kind = "export"
                /\ project[filePath][q].clause # "named"
                /\ project[filePath][q].spec # NoStr
                /\ resolveModule(project[filePath][q].spec) \in Files } }

\* sourceFileCache after the files of `parsed` were parsed
sourceCacheAdd(cache, parsed) ==
  [x \in DOMAIN cache |->
     IF cache[x] = "none" /\ \E p \in parsed : x \in exportReads(p)
     THEN (IF x \in disk.written THEN "rewritten" ELSE "original")
     ELSE cache[x]]

\* analyzeFile: the cached record if there is one, the parsed file otherwise
analyzeFile(filePath, cache) ==
  IF cache[filePath] = "explicit" THEN explicitFile(filePath) ELSE parseFile(filePath)

-----------------------------------------------------------------------------
(* entry.ts: package.json entry points *)

\* matchesPattern: the source pattern "<base>.*" that addEntryPoint derives from an
\* entry under outDir, compared with the file path stripped of its extension
StripExt == [p \in Files \cup IgnoredPaths \cup {DistA} |->
               IF p \in {BarA, DistA} THEN "index" ELSE p]

\* addEntryPoint: "dist/index.js" under outDir "dist" with rootDir "." gives "index.*"
sourcePatterns(pkg) == {StripExt[e] : e \in {q \in pkg.entries : pkg.outDir /\ q = DistA}}

isPackageEntryPoint(filePath) ==
  \/ filePath \in opts.pkg.entries
  \/ StripExt[filePath] \in sourcePatterns(opts.pkg)

-----------------------------------------------------------------------------
(* tracker.ts *)

NoBarrels == [order |-> <<>>,
              consumers |-> [p \in Files |-> {}],
              rewrittenConsumers |-> [p \in Files |-> {}],
              dynamicConsumers |-> [p \in Files |-> {}]]

has(t, barrelPath) == \E j \in 1..Len(t.order) : t.order[j] = barrelPath

register(t, barrelPath) ==
  IF has(t, barrelPath) THEN t ELSE [t EXCEPT !.order = Append(@, barrelPath)]

addConsumer(t, barrelPath, consumerPath) ==
  IF has(t, barrelPath) THEN [t EXCEPT !.consumers[barrelPath] = @ \cup {consumerPath}] ELSE t

markRewritten(t, barrelPath, consumerPath) ==
  IF has(t, barrelPath)
  THEN [t EXCEPT !.rewrittenConsumers[barrelPath] = @ \cup {consumerPath}] ELSE t

addDynamicConsumer(t, barrelPath, consumerPath) ==
  IF has(t, barrelPath)
  THEN [t EXCEPT !.dynamicConsumers[barrelPath] = @ \cup {consumerPath}] ELSE t

getUnrewritten(t, barrelPath, toDelete) ==
  {c \in t.consumers[barrelPath] : c \notin t.rewrittenConsumers[barrelPath] /\ c \notin toDelete}

\* variant that consults the skip list only
isSkipped_SkipListOnly(barrelPath) == barrelPath \in opts.skip
isSkipped(barrelPath) == barrelPath \in opts.skip \/ isPackageEntryPoint(barrelPath)

\* one pass of the for loop inside `while (changed)`, over the barrels in registration order
RECURSIVE classifyPass(_, _, _)
classifyPass(t, j, toDelete) ==
  IF j > Len(t.order) THEN toDelete
  ELSE LET barrelPath == t.order[j] IN
       IF \/ barrelPath \in toDelete
          \/ ~startsWithBase(barrelPath)
          \/ isIgnoredPath(barrelPath)
          \/ t.dynamicConsumers[barrelPath] # {}
          \/ isSkipped(barrelPath)
          \/ getUnrewritten(t, barrelPath, toDelete) # {}
       THEN classifyPass(t, j + 1, toDelete)
       ELSE classifyPass(t, j + 1, toDelete \cup {barrelPath})

\* `while (changed)`: passes are repeated until one adds no candidate
\* (preceded by the variant that makes a single pass)
RECURSIVE classifyLoop(_, _)
classifyLoop_OnePass(t, toDelete) == classifyPass(t, 1, toDelete)
classifyLoop(t, toDelete) ==
  LET next == classifyPass(t, 1, toDelete) IN
  IF next = toDelete THEN toDelete ELSE classifyLoop(t, next)

\* consumer.endsWith(".ts") || consumer.endsWith(".tsx")
isTsPath(consumer) == consumer \in Files \ {Vue, ConsJs}

getPreservationReasons(t, barrelPath, toDelete) ==
  IF t.dynamicConsumers[barrelPath] # {}
  THEN <<[path |-> barrelPath, reason |-> "dynamic-import",
          consumers |-> t.dynamicConsumers[barrelPath]]>>
  ELSE IF isSkipped(barrelPath)
  THEN <<[path |-> barrelPath, reason |-> "skip", consumers |-> {}]>>
  ELSE LET open == getUnrewritten(t, barrelPath, toDelete)
           nonTsConsumers == {c \in open : ~isTsPath(c)}
           nsConsumers == {c \in open : isTsPath(c)}
       IN (IF nonTsConsumers # {}
           THEN <<[path |-> barrelPath, reason |-> "non-ts-import", consumers |-> nonTsConsumers]>>
           ELSE <<>>)
          \o (IF nsConsumers # {}
              THEN <<[path |-> barrelPath, reason |-> "namespace-import", consumers |-> nsConsumers]>>
              ELSE <<>>)

RECURSIVE classifyReport(_, _, _, _)
classifyReport(t, j, toDelete, acc) ==
  IF j > Len(t.order) THEN acc
  ELSE LET barrelPath == t.order[j] IN
       IF ~startsWithBase(barrelPath) \/ isIgnoredPath(barrelPath)
       THEN classifyReport(t, j + 1, toDelete, acc)
       ELSE IF barrelPath \in toDelete
       THEN classifyReport(t, j + 1, toDelete, [acc EXCEPT !.deleted = Append(@, barrelPath)])
       ELSE classifyReport(t, j + 1, toDelete,
              [acc EXCEPT !.preserved = @ \o getPreservationReasons(t, barrelPath, toDelete)])

\* classify: the fixpoint loop, then the report
\* (preceded by the variant that reports without running the fixpoint loop)
classify_NoFixpoint(t) ==
  classifyReport(t, 1, {}, [deleted |-> <<>>, preserved |-> <<>>])
classify(t) ==
  classifyReport(t, 1, classifyLoop(t, {}), [deleted |-> <<>>, preserved |-> <<>>])

-----------------------------------------------------------------------------
(* main.ts: isBarrel *)

isBarrel(filePath, analysis) == analysis.isBarrel \/ filePath \in opts.barrel

-----------------------------------------------------------------------------
(* rewriter.ts: the rewrite plan *)

\* exportItem.aliases, a property the analyzer never sets on the ExportData it builds
aliasesOf(exportItem) ==
  IF "aliases" \in DOMAIN exportItem THEN exportItem.aliases ELSE [n \in {} |-> NoStr]

buildRewriteItem(name, importItem, exportItem) ==
  LET isDefault == name.name = "default" IN
  [type |-> IF importItem.type = "export" THEN "export" ELSE "import",
   ns |-> IF isDefault THEN NoStr ELSE importItem.name,
   named |-> IF isDefault THEN <<>> ELSE <<name>>,
   members |-> IF importItem.type = "ns" /\ ~isDefault
               THEN <<Nm(name.name, NoStr, FALSE)>> ELSE <<>>,
   externalSpecifier |-> exportItem.externalSpecifier,
   reExportedNs |-> exportItem.reExportedNs,
   defaultName |-> IF isDefault
                   THEN (IF name.alias # NoStr THEN name.alias ELSE importItem.name)
                   ELSE NoStr,
   unsafeNsName |-> NoStr]

isNameExported(name, exportItem) ==
  IF exportItem.exportedNames = {} THEN exportItem.externalSpecifier # NoStr
  ELSE \/ name.name \in exportItem.exportedNames
       \/ name.name \in DOMAIN aliasesOf(exportItem)
       \/ exportItem.reExportedNs = name.name
       \/ exportItem.exportedAsDefault = name.name
       \/ \E k \in DOMAIN aliasesOf(exportItem) : aliasesOf(exportItem)[k] = name.name

\* rewrites.get(pos) / posRewrites.get(target) on the plan (ordered maps)
planTargets(rewrites, pos) ==
  IF IndexOf(rewrites, pos) = 0 THEN <<>> ELSE rewrites[IndexOf(rewrites, pos)].targets

planPut(rewrites, pos, targets) ==
  IF IndexOf(rewrites, pos) = 0 THEN Append(rewrites, [key |-> pos, targets |-> targets])
  ELSE [rewrites EXCEPT ![IndexOf(rewrites, pos)].targets = targets]

\* st carries what tracing mutates: the plan, the `added` set, the tracker, the set of
\* files analyzed on the way, the untraceable list, and whether the call stack overflowed
addRewrite(name, importItem, exportItem, targetFilePath, st) ==
  LET pos == importItem.pos
      nameKey == <<pos, name.name, name.alias>>
  IN IF ~isNameExported(name, exportItem) THEN [ok |-> FALSE, st |-> st]
     ELSE IF nameKey \in st.added THEN [ok |-> FALSE, st |-> st]
     ELSE LET posRewrites == planTargets(st.rewrites, pos)
              k == IndexOf(posRewrites, targetFilePath)
              updated ==
                IF k = 0
                THEN Append(posRewrites,
                       [key |-> targetFilePath,
                        rw |-> buildRewriteItem(name, importItem, exportItem)])
                ELSE [posRewrites EXCEPT ![k].rw =
                       [@ EXCEPT
                          !.members = IF importItem.type = "ns"
                                      THEN Append(@, Nm(name.name, NoStr, FALSE)) ELSE @,
                          !.named = IF importItem.type = "ns" THEN @ ELSE Append(@, name),
                          !.reExportedNs = IF exportItem.reExportedNs # NoStr
                                           THEN exportItem.reExportedNs ELSE @]]
          IN [ok |-> TRUE,
              st |-> [st EXCEPT !.rewrites = planPut(st.rewrites, pos, updated),
                                !.added = @ \cup {nameKey}]]

\* traceExport(name, importItem, exports, ...): the loop over `exports` from entry k on.
\* Returns [found, st].  fuel is the remaining depth of the call stack.
RECURSIVE traceExport(_, _, _, _, _, _)
traceExport(name, importItem, exports, k, st, fuel) ==
  IF st.overflow THEN [found |-> FALSE, st |-> st]
  ELSE IF k > Len(exports) THEN [found |-> FALSE, st |-> st]
  ELSE
  LET exportItem == exports[k]
      targetFilePath == exportItem.key
      matches == exportItem.exportedNames = {} \/ name.name \in exportItem.exportedNames
      \* `if (matches) { if (addRewrite(...)) return true; } continue;`
      External(r) == IF matches /\ r.ok THEN [found |-> TRUE, st |-> r.st]
                     ELSE traceExport(name, importItem, exports, k + 1, st, fuel)
  IN
  IF ~isAbsolute(targetFilePath)
  THEN External(addRewrite(name, importItem, exportItem, targetFilePath, st))
  ELSE IF exportItem.externalSpecifier # NoStr
  THEN External(addRewrite(name, importItem, exportItem, exportItem.externalSpecifier, st))
  ELSE IF isIgnoredPath(targetFilePath)
  THEN traceExport(name, importItem, exports, k + 1, st, fuel)
  ELSE
  LET aliases == aliasesOf(exportItem)
      alias == IF name.name \in DOMAIN aliases THEN aliases[name.name] ELSE NoStr
      effectiveName ==
        IF alias # NoStr
        THEN Nm(alias, IF name.alias # NoStr THEN name.alias ELSE name.name, FALSE)
        ELSE IF name.name = "default" /\ exportItem.exportedAsDefault # NoStr
        THEN Nm(exportItem.exportedAsDefault,
                IF name.alias # NoStr THEN name.alias ELSE importItem.name, FALSE)
        ELSE name
      st1 == [st EXCEPT !.analyzed = @ \cup {targetFilePath}]
      \* targetFile is the analysis of the target, r the outcome of addRewrite on it
      Internal(targetFile, r) ==
        IF ~targetFile.isBarrel /\ r.ok THEN [found |-> TRUE, st |-> r.st]
        ELSE
        LET st2 == IF targetFile.isBarrel /\ opts.only = <<>>
                   THEN [st1 EXCEPT !.t = register(@, targetFilePath)] ELSE st1
            deeper == IF fuel = 0
                      THEN [found |-> FALSE, st |-> [st2 EXCEPT !.overflow = TRUE]]
                      ELSE traceExport(effectiveName, importItem, targetFile.exports, 1, st2,
                                       fuel - 1)
        IN IF deeper.found THEN deeper
           ELSE traceExport(name, importItem, exports, k + 1, deeper.st, fuel)
  IN Internal(analyzeFile(targetFilePath, fileCache),
              addRewrite(effectiveName, importItem, exportItem, targetFilePath, st1))

\* traceStarExports: returns [targets, visited, t, analyzed]
RECURSIVE traceStarExports(_, _, _)
traceStarExports(exports, k, acc) ==
  IF k > Len(exports) THEN acc
  ELSE
  LET targetFilePath == exports[k].key
      acc1 == [acc EXCEPT !.visited = @ \cup {targetFilePath},
                          !.analyzed = @ \cup {targetFilePath}]
      Visit(targetFile) ==
        IF targetFile.isBarrel
        THEN LET acc2 == IF opts.only = <<>>
                         THEN [acc1 EXCEPT !.t = register(@, targetFilePath)] ELSE acc1
             IN traceStarExports(exports, k + 1, traceStarExports(targetFile.exports, 1, acc2))
        ELSE traceStarExports(exports, k + 1,
               IF IndexOf(acc1.targets, targetFilePath) # 0 THEN acc1
               ELSE [acc1 EXCEPT !.targets =
                       Append(@, [key |-> targetFilePath,
                                  rw |-> [type |-> "export", ns |-> NoStr, named |-> <<>>,
                                          members |-> <<>>, externalSpecifier |-> NoStr,
                                          reExportedNs |-> NoStr, defaultName |-> NoStr,
                                          unsafeNsName |-> NoStr]])])
  IN
  IF \/ ~isAbsolute(targetFilePath)
     \/ isIgnoredPath(targetFilePath)
     \/ targetFilePath \in acc.visited
  THEN traceStarExports(exports, k + 1, acc)
  ELSE Visit(analyzeFile(targetFilePath, fileCache))

\* buildStarReExportRewrites: the targets of the span are what traceStarExports
\* collects from the export map of the imported barrel
\* (preceded by the variant that takes the internal entries of that map as they are)
buildStarReExportRewrites_DirectOnly(item, exports, st) ==
  LET direct == SelectSeq(exports, LAMBDA x : isAbsolute(x.key)) IN
  [st EXCEPT !.rewrites =
     planPut(st.rewrites, item.pos,
             [k \in 1..Len(direct) |->
                [key |-> direct[k].key,
                 rw |-> [type |-> "export", ns |-> NoStr, named |-> <<>>,
                         members |-> <<>>, externalSpecifier |-> NoStr,
                         reExportedNs |-> NoStr, defaultName |-> NoStr,
                         unsafeNsName |-> NoStr]]])]
buildStarReExportRewrites(item, exports, st) ==
  LET Put(res) == [st EXCEPT !.rewrites = planPut(st.rewrites, item.pos, res.targets),
                             !.t = res.t, !.analyzed = res.analyzed]
  IN Put(traceStarExports(exports, 1,
           [targets |-> planTargets(st.rewrites, item.pos), visited |-> {},
            t |-> st.t, analyzed |-> st.analyzed]))

\* names of `named` extended with those of exportedNames not yet present
RECURSIVE pushMissing(_, _)
pushMissing(named, exportedNames) ==
  IF exportedNames = <<>> THEN named
  ELSE pushMissing(
         IF \E q \in 1..Len(named) : named[q].name = Head(exportedNames) THEN named
         ELSE Append(named, Nm(Head(exportedNames), NoStr, FALSE)),
         Tail(exportedNames))

\* the loop of buildUnsafeNamespaceRewrites; acc is [targets, t, analyzed]
RECURSIVE unsafeNamespaceLoop(_, _, _, _)
unsafeNamespaceLoop(item, exports, k, acc) ==
  IF k > Len(exports) THEN acc
  ELSE
  LET targetFilePath == exports[k].key
      own == exports[k].exportedNames
      acc1 == [acc EXCEPT !.analyzed = @ \cup {targetFilePath}]
      q == IndexOf(acc1.targets, targetFilePath)
      Visit(targetFile) ==
        LET exportedNames ==
              IF own = {} /\ ~targetFile.isBarrel
              THEN UNION {targetFile.exports[e].exportedNames : e \in 1..Len(targetFile.exports)}
              ELSE own
        IN IF exportedNames = {} THEN unsafeNamespaceLoop(item, exports, k + 1, acc1)
           ELSE
           LET targets ==
                 IF q = 0
                 THEN Append(acc1.targets,
                        [key |-> targetFilePath,
                         rw |-> [type |-> "import", ns |-> NoStr,
                                 named |-> pushMissing(<<>>, SetToSeq(exportedNames)),
                                 members |-> <<>>, externalSpecifier |-> NoStr,
                                 reExportedNs |-> NoStr, defaultName |-> NoStr,
                                 unsafeNsName |-> item.name]])
                 ELSE [acc1.targets EXCEPT ![q].rw =
                         [@ EXCEPT !.named = pushMissing(@, SetToSeq(exportedNames)),
                                   !.unsafeNsName = item.name]]
               acc2 == [acc1 EXCEPT !.targets = targets,
                                    !.t = IF targetFile.isBarrel /\ opts.only = <<>>
                                          THEN register(@, targetFilePath) ELSE @]
           IN unsafeNamespaceLoop(item, exports, k + 1, acc2)
  IN
  IF ~isAbsolute(targetFilePath) \/ isIgnoredPath(targetFilePath)
  THEN unsafeNamespaceLoop(item, exports, k + 1, acc)
  ELSE Visit(analyzeFile(targetFilePath, fileCache))

buildUnsafeNamespaceRewrites(item, exports, st) ==
  LET Put(res) == [st EXCEPT !.rewrites = planPut(st.rewrites, item.pos, res.targets),
                             !.t = res.t, !.analyzed = res.analyzed]
  IN Put(unsafeNamespaceLoop(item, exports, 1,
           [targets |-> planTargets(st.rewrites, item.pos),
            t |-> st.t, analyzed |-> st.analyzed]))

\* the namespace-import branch of buildRewrites
IsLocalExport(e) == isAbsolute(e.key)

buildNamespaceRewrite(item, importedFile, st) ==
  LET localExports == SelectSeq(importedFile.exports, IsLocalExport)
      targetPath == localExports[1].key
      exportData == localExports[1]
      Single(targetFile) ==
        LET deepLocalExports == SelectSeq(targetFile.exports, IsLocalExport)
            finalPath == IF targetFile.isBarrel /\ Len(deepLocalExports) = 1
                         THEN deepLocalExports[1].key ELSE targetPath
            st1 == [st EXCEPT !.analyzed = @ \cup {targetPath}]
        IN addRewrite(Nm(item.name, NoStr, FALSE), item,
                      [exportData EXCEPT !.reExportedNs = item.name], finalPath, st1).st
  IN
  IF Len(localExports) = 1
  THEN Single(analyzeFile(targetPath, fileCache))
  ELSE IF Len(localExports) > 1 /\ opts.unsafeNamespace
  THEN buildUnsafeNamespaceRewrites(item, importedFile.exports, st)
  ELSE st

untraceable(barrelPath, consumerPath, name) ==
  [barrelPath |-> barrelPath, consumerPath |-> consumerPath, name |-> name]

\* `if (!found) untraceableImports.push(...)` on the outcome r of a traceExport call
recordUntraceable(r, barrelPath, consumerPath, name) ==
  IF r.found \/ r.st.overflow THEN r.st
  ELSE [r.st EXCEPT !.untraceable = Append(@, untraceable(barrelPath, consumerPath, name))]

\* `for (const name of item.names ?? [])`
RECURSIVE traceNames(_, _, _, _, _, _)
traceNames(item, importedFilePath, exports, filePath, q, st) ==
  IF st.overflow \/ q > Len(item.names) THEN st
  ELSE traceNames(item, importedFilePath, exports, filePath, q + 1,
         recordUntraceable(traceExport(item.names[q], item, exports, 1, st, MaxDepth),
                           importedFilePath, filePath, item.names[q].name))

\* the body of `for (const item of importSet)`: names, default, namespace, star
buildItem(item, importedFilePath, importedFile, filePath, st) ==
  LET Star(s3) ==
        IF s3.overflow \/ item.type # "export" \/ item.name # "*" THEN s3
        ELSE buildStarReExportRewrites(item, importedFile.exports, s3)
      Namespace(s2) ==
        Star(IF s2.overflow \/ item.type # "ns" \/ item.name = NoStr THEN s2
             ELSE buildNamespaceRewrite(item, importedFile, s2))
      Default(s1) ==
        Namespace(IF s1.overflow \/ item.type # "default" THEN s1
                  ELSE recordUntraceable(
                         traceExport(Nm("default", NoStr, FALSE), item,
                                     importedFile.exports, 1, s1, MaxDepth),
                         importedFilePath, filePath, "default"))
  IN Default(traceNames(item, importedFilePath, importedFile.exports, filePath, 1, st))

RECURSIVE buildItems(_, _, _, _, _, _)
buildItems(items, q, importedFilePath, importedFile, filePath, st) ==
  IF q > Len(items) THEN st
  ELSE buildItems(items, q + 1, importedFilePath, importedFile, filePath,
                  buildItem(items[q], importedFilePath, importedFile, filePath, st))

\* `ctx.only.length > 0 && !ctx.tracker.has(importedFilePath)`: with --only, an
\* imported file that is not a selected barrel is passed over
\* (preceded by the variant that passes over nothing)
notSelected_Never(t, importedFilePath) == FALSE
notSelected(t, importedFilePath) == opts.only # <<>> /\ ~has(t, importedFilePath)

\* the loop `for (const [importedFilePath, importSet] of analysis.imports)`
RECURSIVE buildRewritesFrom(_, _, _, _)
buildRewritesFrom(imports, e, filePath, st) ==
  IF e > Len(imports) THEN st
  ELSE
  LET importedFilePath == imports[e].key
      Visit(importedFile) ==
        IF opts.only = <<>> /\ ~isBarrel(importedFilePath, importedFile)
        THEN buildRewritesFrom(imports, e + 1, filePath,
                               [st EXCEPT !.analyzed = @ \cup {importedFilePath}])
        ELSE
        LET st1 == [st EXCEPT !.analyzed = @ \cup {importedFilePath},
                              !.t = IF opts.only = <<>> THEN register(@, importedFilePath)
                                    ELSE @]
        IN buildRewritesFrom(imports, e + 1, filePath,
             buildItems(imports[e].items, 1, importedFilePath, importedFile, filePath, st1))
  IN
  IF \/ ~isAbsolute(importedFilePath)
     \/ isIgnoredPath(importedFilePath)
     \/ importedFilePath \in opts.skip
     \/ isPackageEntryPoint(importedFilePath)
  THEN buildRewritesFrom(imports, e + 1, filePath, st)
  ELSE IF notSelected(st.t, importedFilePath)
  THEN buildRewritesFrom(imports, e + 1, filePath, st)
  ELSE Visit(analyzeFile(importedFilePath, fileCache))

buildRewrites(analysis, filePath, t) ==
  LET st0 == [rewrites |-> <<>>, added |-> {}, t |-> t, analyzed |-> {},
              untraceable |-> <<>>, overflow |-> FALSE]
  IN IF analysis.isBarrel /\ filePath \notin opts.skip /\ ~isPackageEntryPoint(filePath)
     THEN st0
     ELSE buildRewritesFrom(analysis.imports, 1, filePath, st0)

-----------------------------------------------------------------------------
(* factory.ts and applyRewrites: the replacement statements *)

AllType(namedIds) == \A q \in 1..Len(namedIds) : namedIds[q].isType

createImportDeclaration(rewrite, specifier) ==
  LET namedIds == rewrite.named \o rewrite.members
      isTypeOnly == rewrite.defaultName = NoStr /\ AllType(namedIds)
  IN Stmt("import", IF Len(namedIds) > 0 THEN "named" ELSE "none", specifier, isTypeOnly,
          rewrite.defaultName, NoStr,
          [q \in 1..Len(namedIds) |->
             Nm(namedIds[q].name, namedIds[q].alias, ~isTypeOnly /\ namedIds[q].isType)])

createNsImportDeclaration(specifier, namespace) ==
  Stmt("import", "ns", specifier, FALSE, NoStr, namespace, <<>>)

createReExportDeclaration(rewrite, specifier) ==
  LET namedIds == rewrite.named
      isTypeOnly == rewrite.defaultName = NoStr /\ AllType(namedIds)
  IN Stmt("export", IF Len(namedIds) > 0 THEN "named" ELSE "star", specifier, isTypeOnly,
          NoStr, NoStr,
          [q \in 1..Len(namedIds) |->
             Nm(namedIds[q].name, namedIds[q].alias, ~isTypeOnly /\ namedIds[q].isType)])

\* const nsName = { id, ... }
createUnsafeNamespaceDeclaration(nsName, identifiers) ==
  Stmt("const", "none", NoStr, FALSE, NoStr, nsName,
       [q \in 1..Len(identifiers) |-> Nm(identifiers[q], NoStr, FALSE)])

\* buildSpecifier: the specifier text that makes filePath reach targetFilePath
buildSpecifier(filePath, targetFilePath) == targetFilePath

\* the replacement statements of one span, in the order of its target map
RECURSIVE replacementsOf(_, _, _)
replacementsOf(filePath, targets, q) ==
  IF q > Len(targets) THEN <<>>
  ELSE LET rewrite == targets[q].rw
           specifier == IF rewrite.externalSpecifier # NoStr THEN rewrite.externalSpecifier
                        ELSE buildSpecifier(filePath, targets[q].key)
           stmt == IF rewrite.reExportedNs # NoStr
                   THEN createNsImportDeclaration(specifier, rewrite.reExportedNs)
                   ELSE IF rewrite.type = "import"
                   THEN createImportDeclaration(rewrite, specifier)
                   ELSE createReExportDeclaration(rewrite, specifier)
       IN <<stmt>> \o replacementsOf(filePath, targets, q + 1)

RECURSIVE unsafeIdentifiers(_, _)
unsafeIdentifiers(targets, q) ==
  IF q > Len(targets) THEN <<>>
  ELSE (IF targets[q].rw.unsafeNsName # NoStr
        THEN [e \in 1..Len(targets[q].rw.named) |-> ElemName(targets[q].rw.named[e])]
        ELSE <<>>) \o unsafeIdentifiers(targets, q + 1)

unsafeNsNameOf(targets) ==
  LET marked == {q \in 1..Len(targets) : targets[q].rw.unsafeNsName # NoStr} IN
  IF marked = {} THEN NoStr
  ELSE targets[CHOOSE q \in marked : \A r \in marked : r <= q].rw.unsafeNsName

spanReplacement(filePath, targets) ==
  replacementsOf(filePath, targets, 1)
  \o (IF unsafeNsNameOf(targets) # NoStr /\ Len(unsafeIdentifiers(targets, 1)) > 0
      THEN <<createUnsafeNamespaceDeclaration(unsafeNsNameOf(targets),
                                              unsafeIdentifiers(targets, 1))>>
      ELSE <<>>)

\* reverseRewritesByPos: the plan sorted by descending start offset (stable)
\* (preceded by the variant that leaves the plan in insertion order)
RECURSIVE reverseRewritesByPos(_)
reverseRewritesByPos_Unsorted(rewrites) == rewrites
reverseRewritesByPos(rewrites) ==
  IF rewrites = <<>> THEN <<>>
  ELSE LET top == CHOOSE q \in 1..Len(rewrites) :
                    /\ \A r \in 1..Len(rewrites) : rewrites[r].key <= rewrites[q].key
                    /\ \A r \in 1..(q - 1) : rewrites[r].key < rewrites[q].key
           rest == [r \in 1..(Len(rewrites) - 1) |->
                      IF r < top THEN rewrites[r] ELSE rewrites[r + 1]]
       IN <<rewrites[top]>> \o reverseRewritesByPos(rest)

\* applyRewrites: for every span of the plan, the statements that replace it
applyRewrites(filePath, rewrites) ==
  LET sorted == reverseRewritesByPos(rewrites) IN
  [q \in 1..Len(sorted) |->
     [key |-> sorted[q].key, stmts |-> spanReplacement(filePath, sorted[q].targets)]]

-----------------------------------------------------------------------------
(* main.ts: the steps of unbarrelify *)

\* `ctx.write && !ctx.check`: the run may write and unlink files
\* (preceded by the variant that looks at `write` only)
sideEffects_WriteOnly == opts.write
sideEffects == opts.write /\ ~opts.check

cacheAdd(cache, paths) ==
  [p \in DOMAIN cache |-> IF p \in paths /\ cache[p] = "none" THEN "analyzed" ELSE cache[p]]

\* the loop over analysis.dynamicImports
RECURSIVE discoverDynamic(_, _, _)
discoverDynamic(dynamicImports, consumerPath, acc) ==
  IF dynamicImports = <<>> THEN acc
  ELSE LET dynamicImport == Head(dynamicImports)
           imported == analyzeFile(dynamicImport, fileCache)
           acc1 == [acc EXCEPT !.analyzed = @ \cup {dynamicImport}]
       IN discoverDynamic(Tail(dynamicImports), consumerPath,
            IF isBarrel(dynamicImport, imported)
            THEN [acc1 EXCEPT !.t = addDynamicConsumer(register(@, dynamicImport),
                                                       dynamicImport, consumerPath)]
            ELSE acc1)

\* the loop over analysis.imports
RECURSIVE discoverImports(_, _, _, _, _)
discoverImports(analysis, imports, e, consumerPath, acc) ==
  IF e > Len(imports) THEN acc
  ELSE
  LET importedFilePath == imports[e].key IN
  IF ~isAbsolute(importedFilePath) \/ isIgnoredPath(importedFilePath)
  THEN discoverImports(analysis, imports, e + 1, consumerPath, acc)
  ELSE
  LET importedFile == analyzeFile(importedFilePath, fileCache)
      acc1 == [acc EXCEPT !.analyzed = @ \cup {importedFilePath}]
      t1 == addConsumer(register(acc1.t, importedFilePath), importedFilePath, consumerPath)
  IN discoverImports(analysis, imports, e + 1, consumerPath,
       IF isBarrel(importedFilePath, importedFile)
       THEN [acc1 EXCEPT !.t = IF analysis.isBarrel THEN register(t1, consumerPath) ELSE t1]
       ELSE acc1)

discoverBarrels(analysis, consumerPath, t) ==
  LET t1 == IF analysis.isBarrel /\ isPackageEntryPoint(consumerPath)
            THEN register(t, consumerPath) ELSE t
      t2 == IF consumerPath \in opts.barrel THEN register(t1, consumerPath) ELSE t1
      acc == discoverDynamic(SetToSeq(analysis.dynamicImports), consumerPath,
                             [t |-> t2, analyzed |-> {}])
  IN discoverImports(analysis, analysis.imports, 1, consumerPath, acc)

RECURSIVE markRewrittenBarrels(_, _, _, _, _, _)
markRewrittenBarrels(imports, e, consumerPath, rewrites, cache, t) ==
  IF e > Len(imports) THEN t
  ELSE
  LET importedFilePath == imports[e].key
      items == imports[e].items
  IN
  IF ~isAbsolute(importedFilePath) \/ isIgnoredPath(importedFilePath)
  THEN markRewrittenBarrels(imports, e + 1, consumerPath, rewrites, cache, t)
  ELSE
  IF /\ cache[importedFilePath] # "none"
     /\ isBarrel(importedFilePath, analyzeFile(importedFilePath, cache))
     /\ has(t, importedFilePath)
     /\ \E q \in 1..Len(items) : IndexOf(rewrites, items[q].pos) # 0
  THEN markRewrittenBarrels(imports, e + 1, consumerPath, rewrites, cache,
                            markRewritten(t, importedFilePath, consumerPath))
  ELSE markRewrittenBarrels(imports, e + 1, consumerPath, rewrites, cache, t)

\* registerExplicitBarrels: the loop over the paths given with --only
RECURSIVE registerExplicitLoop(_, _)
registerExplicitLoop(paths, acc) ==
  IF paths = <<>> THEN acc
  ELSE LET barrelPath == Head(paths)
           isBarrelFile == checkIsBarrel(project[barrelPath]) \/ barrelPath \in opts.barrel
       IN registerExplicitLoop(Tail(paths),
            IF ~isBarrelFile THEN acc
            ELSE IF barrelPath \in opts.skip \/ isPackageEntryPoint(barrelPath) THEN acc
            ELSE [cache |-> [acc.cache EXCEPT ![barrelPath] = "explicit"],
                  t |-> register(acc.t, barrelPath)])

RegisterExplicitBarrels ==
  /\ phase = "start"
  /\ IF \E q \in 1..Len(opts.only) : opts.only[q] \in env.unreadable
     THEN \* `await read(barrelPath)` throws outside any try: unbarrelify rejects
          /\ phase' = "rejected"
          /\ UNCHANGED <<fileCache, tracker, sourceFileCache>>
     ELSE LET res == registerExplicitLoop(opts.only, [cache |-> fileCache, t |-> tracker]) IN
          /\ fileCache' = res.cache
          /\ tracker' = res.t
          /\ sourceFileCache' =
               sourceCacheAdd(sourceFileCache, {p \in Files : res.cache[p] = "explicit"})
          /\ phase' = "scan"
  /\ UNCHANGED <<project, opts, files, idx, untraceableImports, modified, content, errors,
                 deleted, preserved, disk, env, dryRun, plan>>

\* one iteration of the for loop of processFiles
ProcessFile ==
  /\ phase = "scan"
  /\ idx <= Len(files)
  /\ idx' = idx + 1
  /\ LET filePath == files[idx]
         \* what follows buildRewrites: markRewrittenBarrels, applyRewrites, write
         Finish(analysis, found, built) ==
           LET touched == {filePath} \cup found.analyzed \cup built.analyzed
               cache == cacheAdd(fileCache, touched)
           IN
           /\ fileCache' = cache
           /\ sourceFileCache' =
                sourceCacheAdd(sourceFileCache, {p \in touched : fileCache[p] = "none"})
           /\ untraceableImports' = untraceableImports \o built.untraceable
           /\ plan' = [plan EXCEPT ![filePath] = built.rewrites]
           /\ IF built.overflow
              THEN \* traceExport recurses without end: the call never returns
                   /\ tracker' = built.t
                   /\ phase' = "diverged"
                   /\ UNCHANGED <<modified, content, errors, disk>>
              ELSE IF built.rewrites = <<>>
              THEN /\ tracker' = built.t
                   /\ UNCHANGED <<phase, modified, content, errors, disk>>
              ELSE /\ tracker' = markRewrittenBarrels(analysis.imports, 1, filePath,
                                                      built.rewrites, cache, built.t)
                   /\ content' = [content EXCEPT ![filePath] =
                                    applyRewrites(filePath, built.rewrites)]
                   /\ IF sideEffects /\ filePath \in env.writeFails
                      THEN \* write throws: the catch records it, modified.push is not reached
                           /\ errors' = Append(errors, filePath)
                           /\ UNCHANGED <<modified, disk>>
                      ELSE /\ disk' = IF sideEffects
                                      THEN [disk EXCEPT !.written = @ \cup {filePath}]
                                      ELSE disk
                           /\ modified' = Append(modified, filePath)
                           /\ UNCHANGED errors
                   /\ UNCHANGED phase
         Rewrite(analysis, found) ==
           Finish(analysis, found, buildRewrites(analysis, filePath, found.t))
         Discover(analysis) ==
           Rewrite(analysis,
                   IF opts.only = <<>> THEN discoverBarrels(analysis, filePath, tracker)
                   ELSE [t |-> tracker, analyzed |-> {}])
     IN
     IF opts.only # <<>> /\ has(tracker, filePath)
     THEN UNCHANGED <<phase, fileCache, sourceFileCache, tracker, untraceableImports,
                      modified, content, errors, disk, plan>>
     ELSE IF filePath \in env.unreadable /\ fileCache[filePath] = "none"
     THEN \* analyzeFile(filePath) throws: the catch records the error
          /\ errors' = Append(errors, filePath)
          /\ UNCHANGED <<phase, fileCache, sourceFileCache, tracker, untraceableImports,
                         modified, content, disk, plan>>
     ELSE Discover(analyzeFile(filePath, fileCache))
  /\ UNCHANGED <<project, opts, files, deleted, preserved, env, dryRun>>

\* the files the glob **/*.{astro,html,marko,mdx,svelte,vue} finds
nonTsFiles == SetToSeq({p \in {Vue} : project[p] # <<>>})

\* the loop over the import matches of one non-TS file
RECURSIVE trackMatches(_, _, _, _)
trackMatches(nonTsFile, stmts, j, acc) ==
  IF j > Len(stmts) THEN acc
  ELSE
  LET resolved == resolveModule(stmts[j].spec) IN
  IF stmts[j].kind \notin {"import", "export"} \/ stmts[j].spec = NoStr
     \/ resolved = NoStr \/ ~startsWithBase(resolved)
  THEN trackMatches(nonTsFile, stmts, j + 1, acc)
  ELSE IF has(acc.t, resolved)
  THEN trackMatches(nonTsFile, stmts, j + 1,
                    [acc EXCEPT !.t = addConsumer(@, resolved, nonTsFile)])
  ELSE trackMatches(nonTsFile, stmts, j + 1,
         IF isBarrel(resolved, analyzeFile(resolved, fileCache))
         THEN [t |-> addConsumer(register(acc.t, resolved), resolved, nonTsFile),
               analyzed |-> acc.analyzed \cup {resolved}]
         ELSE [acc EXCEPT !.analyzed = @ \cup {resolved}])

RECURSIVE trackNonTsLoop(_, _)
trackNonTsLoop(nonTs, acc) ==
  IF nonTs = <<>> THEN acc
  ELSE trackNonTsLoop(Tail(nonTs), trackMatches(Head(nonTs), project[Head(nonTs)], 1, acc))

TrackNonTsConsumers ==
  /\ phase = "scan"
  /\ idx > Len(files)
  /\ opts.only = <<>>
  /\ LET \* a file whose readFile throws is passed over by the empty catch
         readable == SelectSeq(nonTsFiles, LAMBDA p : p \notin env.unreadable)
         res == trackNonTsLoop(readable, [t |-> tracker, analyzed |-> {}])
     IN
     /\ tracker' = res.t
     /\ fileCache' = cacheAdd(fileCache, res.analyzed)
     /\ sourceFileCache' =
          sourceCacheAdd(sourceFileCache, {p \in res.analyzed : fileCache[p] = "none"})
  /\ phase' = "classify"
  /\ UNCHANGED <<project, opts, files, idx, untraceableImports, modified, content, errors,
                 deleted, preserved, disk, env, dryRun, plan>>

\* tracker.classify and the unlink loop that ends processFiles
Classify ==
  /\ \/ phase = "classify"
     \/ phase = "scan" /\ idx > Len(files) /\ opts.only # <<>>
  /\ LET res == classify(tracker)
         failing == SelectSeq(res.deleted, LAMBDA p : p \in env.unlinkFails)
     IN
     /\ deleted' = res.deleted
     /\ preserved' = res.preserved
     /\ disk' = IF sideEffects
                THEN [disk EXCEPT !.removed = @ \cup (SeqToSet(res.deleted) \ env.unlinkFails)]
                ELSE disk
     /\ errors' = IF sideEffects THEN errors \o failing ELSE errors
  /\ phase' = "done"
  /\ UNCHANGED <<project, opts, files, idx, fileCache, tracker, untraceableImports,
                 modified, content, env, sourceFileCache, dryRun, plan>>

\* a caller that runs unbarrelify without write on the project and then with
\* write on a fresh copy of it, keeping what the first run reported
RunAgainWithWrite ==
  /\ phase = "done"
  /\ ~opts.write
  /\ ~dryRun.ran
  /\ dryRun' = [ran |-> TRUE, modified |-> SeqToSet(modified), deleted |-> SeqToSet(deleted)]
  /\ opts' = [opts EXCEPT !.write = TRUE]
  /\ idx' = 1
  /\ phase' = IF opts.only # <<>> THEN "start" ELSE "scan"
  /\ fileCache' = [p \in Files |-> "none"]
  /\ sourceFileCache' = [p \in Files |-> "none"]
  /\ tracker' = NoBarrels
  /\ untraceableImports' = <<>>
  /\ modified' = <<>>
  /\ content' = [p \in Files |-> <<>>]
  /\ errors' = <<>>
  /\ deleted' = <<>>
  /\ preserved' = <<>>
  /\ disk' = [written |-> {}, removed |-> {}]
  /\ plan' = [p \in Files |-> <<>>]
  /\ UNCHANGED <<project, files, env>>

-----------------------------------------------------------------------------
(* The projects and options the model runs on *)

N(n) == Nm(n, NoStr, FALSE)

\* statements a consumer file may hold
ConsumerMenu ==
  << ImportNamed(BarA, <<N("a")>>),
     ImportNamed(BarA, <<Nm("b", "bb", FALSE), N("x2")>>),
     ImportNs(BarA, "ns"),
     ImportDefault(BarA, "dflt"),
     ExportStar(BarA),
     Dynamic(BarA),
     ImportNamed(BarB, <<N("a")>>) >>

\* what the root barrel index.ts may hold
BarABodies ==
  { <<ExportNamed(Def1, <<N("a")>>)>>,
    <<ExportNamed(Def1, <<N("a")>>), ExportNamed(Def2, <<N("b")>>)>>,
    <<ExportStar(BarB)>>,
    <<ExportNamed(BarB, <<N("a")>>)>>,
    <<ExportStar(AliasB)>>,
    <<ExportNamed(Def1, <<Nm("x", "b", FALSE), Nm("a", "x2", FALSE)>>)>>,
    <<ExportNamed(Def1, <<Nm("default", "x2", FALSE)>>),
      ExportNamed(Def2, <<N("b"), Nm("b", "default", FALSE)>>)>>,
    <<ExportNamed("pkg", <<N("a")>>), ExportStar(Def2)>>,
    <<ExportNamed(BarB, <<Nm("a", "x2", FALSE)>>), ExportNamed(Def2, <<N("b")>>)>> }

\* what the inner barrel lib/index.ts may hold
BarBBodies ==
  { <<ExportNamed(BarC, <<N("a")>>)>>,
    <<ExportNamed(Def1, <<N("a")>>), ExportNamed(Def2, <<N("b")>>)>> }

\* the other consumer of the root barrel: none, a second script, or a .vue file
OtherConsumers ==
  { [c2 |-> <<>>, vue |-> <<>>],
    [c2 |-> <<ImportNamed(BarA, <<N("a")>>)>>, vue |-> <<>>],
    [c2 |-> <<ImportNs(BarA, "ns")>>, vue |-> <<>>],
    [c2 |-> <<>>, vue |-> <<ImportNamed(BarA, <<N("a")>>)>>] }

\* strictly increasing index sequences: the choices of 1..maxLen statements of a menu
Choices(n, maxLen) ==
  {s \in UNION {[1..k -> 1..n] : k \in 1..maxLen} :
     \A i, j \in DOMAIN s : i < j => s[i] < s[j]}

\* the project with the given texts of c1.ts, c2.ts, c3.js, page.vue, index.ts and
\* lib/index.ts
Project(c1, c2, js, vue, bodyA, bodyB) ==
  [p \in Files |->
     CASE p = Cons1 -> c1
       [] p = Cons2 -> c2
       [] p = ConsJs -> js
       [] p = Vue   -> vue
       [] p = BarA  -> bodyA
       [] p = BarB  -> bodyB
       [] p = BarC  -> <<ExportNamed(Def1, <<N("a")>>)>>
       [] p = Def1  -> <<Decl("a"), Decl("x"), DeclDefault>>
       [] p = Def2  -> <<Decl("b")>>]

\* projects outside the menus: a file that ends with `export {}`, two barrels
\* that re-export from one another, a namespace import through two barrels,
\* a barrel that re-exports everything from a file that is itself rewritten
\* earlier in the run, and a JavaScript consumer with a namespace import
SpecialProjects ==
  { Project(<<ImportNamed(BarA, <<N("a")>>)>>, <<>>, <<>>, <<>>,
            <<ExportNamed(BarB, <<N("a")>>)>>,
            <<ExportNamed(Def1, <<N("a")>>), ExportLocal(<<>>)>>),
    Project(<<ImportNamed(BarA, <<N("a")>>)>>, <<>>, <<>>, <<>>,
            <<ExportNamed(BarB, <<N("a")>>)>>, <<ExportNamed(BarA, <<N("a")>>)>>),
    Project(<<ImportNs(BarA, "ns")>>, <<>>, <<>>, <<>>,
            <<ExportStar(BarB)>>, <<ExportNamed(Def1, <<N("a")>>)>>),
    Project(<<Decl("k"), ExportNamed(BarB, <<Nm("default", "x2", FALSE)>>)>>,
            <<ImportNamed(BarA, <<N("x2")>>)>>, <<>>, <<>>,
            <<ExportStar(Cons1)>>, <<ExportNamed(Def1, <<N("default")>>)>>),
    Project(<<>>, <<>>, <<ImportNs(BarA, "ns")>>, <<>>,
            <<ExportNamed(Def1, <<N("a")>>), ExportNamed(Def2, <<N("b")>>)>>,
            <<ExportNamed(BarC, <<N("a")>>)>>) }
  \cup
  \* a barrel with two re-exports from the same package; a statement with a
  \* default and a named binding; type-only bindings; star re-exports in a cycle
  { Project(<<Decl("k"), ExportStar(BarA)>>, <<ImportNamed(BarA, <<N("a")>>)>>, <<>>, <<>>,
            <<ExportNamed("pkg", <<N("a")>>), ExportNamed("pkg", <<N("b")>>)>>,
            <<ExportNamed(BarC, <<N("a")>>)>>),
    Project(<<Stmt("import", "named", BarA, FALSE, "dflt", NoStr, <<N("a")>>)>>,
            <<>>, <<>>, <<>>,
            <<ExportNamed(Def1, <<N("default"), N("a")>>)>>,
            <<ExportNamed(BarC, <<N("a")>>)>>),
    Project(<<Stmt("import", "named", BarA, FALSE, NoStr, NoStr,
                   <<Nm("a", NoStr, TRUE), N("x")>>)>>,
            <<Stmt("import", "named", BarA, TRUE, NoStr, NoStr, <<N("a"), N("x")>>)>>,
            <<>>, <<>>,
            <<ExportNamed(Def1, <<N("a"), N("x")>>)>>,
            <<ExportNamed(BarC, <<N("a")>>)>>),
    Project(<<Stmt("import", "none", BarA, TRUE, "dflt", NoStr, <<>>)>>,
            <<>>, <<>>, <<>>,
            <<ExportNamed(Def1, <<N("default")>>)>>,
            <<ExportNamed(BarC, <<N("a")>>)>>),
    Project(<<Decl("k"), ExportStar(BarA)>>, <<>>, <<>>, <<>>,
            <<ExportStar(BarB), ExportNamed(Def2, <<N("b")>>)>>,
            <<ExportStar(BarA), ExportNamed(Def1, <<N("a")>>)>>),
    \* a barrel with two re-exports from the same file
    Project(<<ImportNamed(BarA, <<N("a"), N("x")>>)>>, <<>>, <<>>, <<>>,
            <<ExportNamed(Def1, <<N("a")>>), ExportNamed(Def1, <<N("x")>>)>>,
            <<ExportNamed(BarC, <<N("a")>>)>>) }

Projects ==
  { Project([q \in DOMAIN pick |-> ConsumerMenu[pick[q]]], other.c2, <<>>, other.vue,
            bodyA, bodyB) :
      pick \in Choices(Len(ConsumerMenu), MaxStmts),
      other \in OtherConsumers,
      bodyA \in BarABodies,
      bodyB \in BarBBodies }
  \cup SpecialProjects

DefaultOptions ==
  [skip |-> {}, pkg |-> [entries |-> {}, outDir |-> FALSE], only |-> <<>>, barrel |-> {},
   unsafeNamespace |-> FALSE, write |-> TRUE, check |-> FALSE]

OptionProfiles ==
  { DefaultOptions,
    [DefaultOptions EXCEPT !.skip = {BarA}],
    [DefaultOptions EXCEPT !.skip = {BarB}],
    [DefaultOptions EXCEPT !.pkg = [entries |-> {BarA}, outDir |-> FALSE]],
    [DefaultOptions EXCEPT !.pkg = [entries |-> {DistA}, outDir |-> TRUE]],
    [DefaultOptions EXCEPT !.only = <<BarA>>],
    [DefaultOptions EXCEPT !.unsafeNamespace = TRUE],
    [DefaultOptions EXCEPT !.write = FALSE],
    [DefaultOptions EXCEPT !.check = TRUE] }

\* getProjectFiles: the script files of the project, in glob order
ProjectFiles(proj) ==
  SelectSeq(<<Cons1, Cons2, ConsJs, BarA, BarB, BarC, Def1, Def2>>,
            LAMBDA p : proj[p] # <<>>)

\* the file system without faults
NoFaults == [unreadable |-> {}, writeFails |-> {}, unlinkFails |-> {}]

\* faults are put on files that no other file imports, so that a failing read
\* is the read that opens the processing of that file
FaultProfiles ==
  { [NoFaults EXCEPT !.unreadable = {Cons2}],
    [NoFaults EXCEPT !.unreadable = {Vue}],
    [NoFaults EXCEPT !.writeFails = {Cons1}],
    [NoFaults EXCEPT !.unlinkFails = {BarA}] }

\* the options of a run together with the faults it meets
RunProfiles ==
  { [opts |-> o, env |-> NoFaults] : o \in OptionProfiles }
  \cup { [opts |-> DefaultOptions, env |-> e] : e \in FaultProfiles }
  \cup { [opts |-> [DefaultOptions EXCEPT !.only = <<BarA>>],
          env |-> [NoFaults EXCEPT !.unreadable = {BarA}]] }

Init ==
  /\ project \in Projects
  /\ \E r \in RunProfiles : opts = r.opts /\ env = r.env
  /\ sourceFileCache = [p \in Files |-> "none"]
  /\ dryRun = [ran |-> FALSE, modified |-> {}, deleted |-> {}]
  /\ plan = [p \in Files |-> <<>>]
  /\ files = ProjectFiles(project)
  /\ idx = 1
  /\ phase = IF opts.only # <<>> THEN "start" ELSE "scan"
  /\ fileCache = [p \in Files |-> "none"]
  /\ tracker = NoBarrels
  /\ untraceableImports = <<>>
  /\ modified = <<>>
  /\ content = [p \in Files |-> <<>>]
  /\ errors = <<>>
  /\ deleted = <<>>
  /\ preserved = <<>>
  /\ disk = [written |-> {}, removed |-> {}]

Next ==
  \/ RegisterExplicitBarrels
  \/ ProcessFile
  \/ TrackNonTsConsumers
  \/ Classify

Spec == Init /\ [][Next]_vars

\* the run, possibly followed by a second run with write on a copy of the project
NextDryThenWrite ==
  \/ Next
  \/ RunAgainWithWrite

SpecDryThenWrite == Init /\ [][NextDryThenWrite]_vars

-----------------------------------------------------------------------------
(* Vocabulary of the properties *)

Done == phase = "done"
DeletedSet == SeqToSet(deleted)
ModifiedSet == SeqToSet(modified)
ProcessedFiles == SeqToSet(files)

\* the file is a barrel by its content
IsBarrelFile(b) == b \in Files /\ checkIsBarrel(project[b])

\* the file is listed in `skip` or is a package entry point
Protected(b) == b \in opts.skip \/ isPackageEntryPoint(b)

\* positions of the import / re-export statements of f that target b
StaticStmts(f, b) ==
  { j \in 1..Len(project[f]) :
      /\ project[f][j].kind \in {"import", "export"}
      /\ project[f][j].spec # NoStr
      /\ resolveModule(project[f][j].spec) = b }

\* processed files holding a string-literal import("...") of b
DynamicImporters(b) ==
  { f \in ProcessedFiles :
      \E j \in 1..Len(project[f]) :
        project[f][j].kind = "dynamic" /\ resolveModule(project[f][j].spec) = b }

\* statement j of f was replaced in the output
Rewritten(f, j) == f \in ModifiedSet /\ IndexOf(content[f], j) # 0
ReplacementOf(f, j) == content[f][IndexOf(content[f], j)].stmts

\* reasons under which b is reported in `preserved`
ReasonsOf(b) == { preserved[q].reason : q \in { r \in 1..Len(preserved) : preserved[r].path = b } }

\* names a statement binds (imports) or exposes (re-exports)
BoundNames(stmt) ==
  (IF stmt.dflt # NoStr THEN {stmt.dflt} ELSE {})
  \cup (IF stmt.ns # NoStr THEN {stmt.ns} ELSE {})
  \cup (IF stmt.clause = "star" THEN {"*"} ELSE {})
  \cup { ElemName(stmt.named[q]) : q \in 1..Len(stmt.named) }

BoundNamesOfAll(stmts) == UNION { BoundNames(stmts[q]) : q \in 1..Len(stmts) }

-----------------------------------------------------------------------------
(* Properties *)

\* C1: a barrel is reported in `deleted` only if no processed file imports it
\* dynamically, it is neither skipped nor a package entry point, and every file
\* that statically imports or re-exports from it either has had every one of
\* its statements targeting the barrel rewritten or is itself reported deleted.
C1_DeletedOnlyIfEveryStatementRewritten ==
  Done =>
    \A b \in DeletedSet :
      /\ DynamicImporters(b) = {}
      /\ ~Protected(b)
      /\ \A f \in Files : \A j \in StaticStmts(f, b) :
           Rewritten(f, j) \/ f \in DeletedSet

\* C2: no replacement statement written into a modified file targets a file
\* that the same run reports in `deleted`.
C2_NoReplacementTargetsDeleted ==
  Done =>
    \A f \in ModifiedSet : \A e \in 1..Len(content[f]) :
      \A q \in 1..Len(content[f][e].stmts) :
        LET stmt == content[f][e].stmts[q]
        IN stmt.spec # NoStr => resolveModule(stmt.spec) \notin DeletedSet

\* C3: every name bound or exposed by a replaced statement is still bound or
\* exposed by the statements that replace it.
C3_NoBindingLost ==
  \A f \in ModifiedSet : \A e \in 1..Len(content[f]) :
    BoundNames(project[f][content[f][e].key]) \subseteq BoundNamesOfAll(content[f][e].stmts)

\* files reachable from b through the resolved re-export entries of export maps
RECURSIVE exportClosure(_, _)
exportClosure(frontier, seen) ==
  IF frontier = {} THEN seen
  ELSE LET next == { e.key : e \in UNION { SeqToSet(buildExportMap(project[f])) : f \in frontier } }
                   \cap Files
       IN exportClosure(next \ (seen \cup frontier), seen \cup frontier)

\* some re-export entry reachable from b could provide the requested name
Providable(b, n) ==
  \E f \in exportClosure({b}, {}) : \E e \in SeqToSet(buildExportMap(project[f])) :
    \/ e.exportedNames = {}
    \/ n \in e.exportedNames
    \/ e.exportedAsDefault = n

\* names requested by the named and default bindings of an import statement
RequestedNames(stmt) ==
  { stmt.named[q].name : q \in 1..Len(stmt.named) }
  \cup (IF stmt.dflt # NoStr THEN {"default"} ELSE {})

\* the rewrite builder visits the imports that consumer f makes from barrel b,
\* and f is read and written without fault
Visits(f, b) ==
  /\ f \in ProcessedFiles
  /\ f \notin env.unreadable \cup env.writeFails
  /\ IsBarrelFile(b)
  /\ ~Protected(b)
  /\ ~(IsBarrelFile(f) /\ ~Protected(f))
  /\ opts.only = <<>>

\* C4: a named or default binding imported from barrel B by consumer F that no
\* export provides is recorded as (B, F, name) in untraceableImports, the run
\* reports no error for F, and B is not reported in `deleted`.
C4_UntraceableRecordedAndBarrelKept ==
  Done =>
    /\ \A u \in SeqToSet(untraceableImports) : u.barrelPath \notin DeletedSet
    /\ \A b \in Files : \A f \in Files :
         Visits(f, b) =>
           \A j \in StaticStmts(f, b) :
             project[f][j].kind = "import" =>
               \A n \in RequestedNames(project[f][j]) :
                 ~Providable(b, n) =>
                   /\ [barrelPath |-> b, consumerPath |-> f, name |-> n]
                        \in SeqToSet(untraceableImports)
                   /\ \A q \in 1..Len(errors) : errors[q] # f

\* names a file exports, by declaration or by named re-export
ExportsName(target, n) == target \in Files /\ n \in getExportedNames(target)

\* a replaced span holds a destructuring of a namespace object
HasDestructuring(stmts) == \E q \in 1..Len(stmts) : stmts[q].kind = "const"

\* C5: every named or default binding of a replacement statement whose target
\* is a project file requests a name that the target file itself exports.
C5_TargetExportsRequestedName ==
  \A f \in ModifiedSet : \A e \in 1..Len(content[f]) :
    ~HasDestructuring(content[f][e].stmts) =>
      \A q \in 1..Len(content[f][e].stmts) :
        LET stmt == content[f][e].stmts[q]
            target == resolveModule(stmt.spec)
        IN (stmt.kind \in {"import", "export"} /\ target \in Files) =>
             /\ \A r \in 1..Len(stmt.named) : ExportsName(target, stmt.named[r].name)
             /\ stmt.dflt # NoStr => ExportsName(target, "default")

\* C6: a barrel that a processed file imports through import("...") is never
\* reported in `deleted` and is reported in `preserved` with the reason
\* dynamic-import and no other.
C6_DynamicTargetPreserved ==
  Done =>
    \A b \in Files :
      (IsBarrelFile(b) /\ DynamicImporters(b) # {}) =>
        b \notin DeletedSet /\ ReasonsOf(b) = {"dynamic-import"}

\* non-JS/TS files that import b
NonTsImporters(b) == { f \in Files : f = Vue /\ StaticStmts(f, b) # {} }

\* C7: a barrel imported by a non-JS/TS file is never reported in `deleted`
\* and is reported in `preserved` with reason non-ts-import listing exactly
\* those consumers.
C7_NonTsImportPreserved ==
  Done =>
    \A b \in Files :
      (IsBarrelFile(b) /\ NonTsImporters(b) # {}) =>
        /\ b \notin DeletedSet
        /\ \E q \in 1..Len(preserved) :
             /\ preserved[q].path = b
             /\ preserved[q].reason = "non-ts-import"
             /\ preserved[q].consumers = NonTsImporters(b)

\* no statement of any file that targets b was replaced
NeverRewrittenAsTarget(b) ==
  \A f \in Files : \A j \in StaticStmts(f, b) : ~Rewritten(f, j)

\* C8 (as stated): a barrel listed in `skip` or detected as a package entry
\* point is never reported in `deleted`, is reported with reason skip whenever
\* it is tracked, and no statement importing it directly is rewritten.
C8_SkippedReportedAsSkip ==
  Done =>
    \A b \in Files :
      (IsBarrelFile(b) /\ Protected(b)) =>
        /\ b \notin DeletedSet
        /\ has(tracker, b) => "skip" \in ReasonsOf(b)
        /\ NeverRewrittenAsTarget(b)

\* C8 (amended): a barrel listed in `skip` or detected as a package entry
\* point is never reported in `deleted`; when tracked it is reported with
\* exactly one reason, dynamic-import if a processed file imports it
\* dynamically and skip otherwise; no statement importing it directly is
\* rewritten.
C8_SkippedBarrelKept ==
  Done =>
    \A b \in Files :
      (IsBarrelFile(b) /\ Protected(b)) =>
        /\ b \notin DeletedSet
        /\ has(tracker, b) =>
             ReasonsOf(b) = IF DynamicImporters(b) # {} THEN {"dynamic-import"} ELSE {"skip"}
        /\ NeverRewrittenAsTarget(b)

\* a finished run in which a protected, tracked barrel without dynamic importer
\* is imported by a processed non-barrel file and reported with reason skip
C8_Witness ==
  /\ Done
  /\ \E b \in Files :
       /\ IsBarrelFile(b) /\ Protected(b) /\ has(tracker, b)
       /\ DynamicImporters(b) = {}
       /\ ReasonsOf(b) = {"skip"}
       /\ \E f \in ProcessedFiles : ~IsBarrelFile(f) /\ StaticStmts(f, b) # {}

\* C9: a barrel named index.* at the workspace root is never reported in
\* `deleted`, whether or not package.json lists it.
C9_RootIndexNeverDeleted ==
  Done => \A b \in RootIndexFiles : IsBarrelFile(b) => b \notin DeletedSet

\* the project holds the chain index.ts -> lib/index.ts -> lib/sub/index.ts -> lib/d1.ts
ChainBarrels == {BarA, BarB, BarC}
ChainProject ==
  /\ project[BarA] \in { <<ExportStar(BarB)>>, <<ExportNamed(BarB, <<N("a")>>)>>,
                         <<ExportStar(AliasB)>> }
  /\ project[BarB] = <<ExportNamed(BarC, <<N("a")>>)>>
  /\ project[BarC] = <<ExportNamed(Def1, <<N("a")>>)>>

\* f is the only file outside the chain that refers to a barrel of the chain
OnlyOutsideConsumer(f) ==
  \A g \in Files \ ChainBarrels : \A b \in ChainBarrels :
    /\ g # f => StaticStmts(g, b) = {}
    /\ g \notin DynamicImporters(b)

\* C10: in a chain of barrels A -> B -> C -> definer, none of them protected,
\* a consumer's named import from A is replaced by statements that import from
\* the definer only; when that consumer is the only file outside the chain
\* that refers to it, every barrel of the chain is reported in `deleted`.
C10_ChainResolvedToDefiner ==
  (Done /\ ChainProject /\ opts.only = <<>> /\ \A b \in ChainBarrels : ~Protected(b)) =>
    \A f \in {Cons1, Cons2} : \A j \in 1..Len(project[f]) :
      project[f][j] = ImportNamed(BarA, <<N("a")>>) =>
        /\ Rewritten(f, j)
        /\ \A q \in 1..Len(ReplacementOf(f, j)) :
             resolveModule(ReplacementOf(f, j)[q].spec) = Def1
        /\ OnlyOutsideConsumer(f) => ChainBarrels \subseteq DeletedSet

\* files from which barrel b re-exports the default export under the name n
DefaultAs(b, n) ==
  { resolveModule(project[b][j].spec) :
      j \in { q \in 1..Len(project[b]) :
                /\ project[b][q].kind = "export"
                /\ project[b][q].clause = "named"
                /\ \E e \in 1..Len(project[b][q].named) :
                     /\ project[b][q].named[e].name = "default"
                     /\ project[b][q].named[e].alias = n } }

\* C11: when a barrel re-exports a module's default export under a name X and
\* a consumer imports { X } from the barrel, the statement is replaced by one
\* holding the default import of X from that module, and by no named import of
\* X from it.
C11_AliasedDefaultBecomesDefaultImport ==
  Done =>
    \A b \in Files : \A f \in Files :
      Visits(f, b) =>
        \A j \in StaticStmts(f, b) :
          (project[f][j].kind = "import" /\ project[f][j].clause = "named") =>
            \A e \in 1..Len(project[f][j].named) :
              \A s \in DefaultAs(b, project[f][j].named[e].name) :
                (s \in Files /\ ~IsBarrelFile(s)) =>
                  /\ Rewritten(f, j)
                  /\ \E q \in 1..Len(ReplacementOf(f, j)) :
                       /\ resolveModule(ReplacementOf(f, j)[q].spec) = s
                       /\ ReplacementOf(f, j)[q].kind = "import"
                       /\ ReplacementOf(f, j)[q].dflt = ElemName(project[f][j].named[e])
                  /\ \A q \in 1..Len(ReplacementOf(f, j)) :
                       resolveModule(ReplacementOf(f, j)[q].spec) = s =>
                         \A r \in 1..Len(ReplacementOf(f, j)[q].named) :
                           ReplacementOf(f, j)[q].named[r].name
                             # project[f][j].named[e].name

\* the file that the internal export entries of b lead to through barrels that
\* each have exactly one internal entry; NoStr when some barrel on the way has
\* none or several
RECURSIVE SoleDefiner(_, _)
SoleDefiner(b, fuel) ==
  LET localExports == SelectSeq(buildExportMap(project[b]), IsLocalExport) IN
  IF Len(localExports) # 1 \/ fuel = 0 THEN NoStr
  ELSE IF localExports[1].key \in Files /\ checkIsBarrel(project[localExports[1].key])
  THEN SoleDefiner(localExports[1].key, fuel - 1)
  ELSE localExports[1].key

\* C12: a namespace import from a barrel whose internal export entries lead,
\* through a chain of single-definer barrels of any length, to exactly one
\* definer file is replaced by a namespace import of that definer.
C12_NamespaceImportReachesSoleDefiner ==
  Done =>
    \A b \in Files : \A f \in Files :
      Visits(f, b) =>
        \A j \in StaticStmts(f, b) :
          (project[f][j].kind = "import" /\ project[f][j].clause = "ns"
             /\ SoleDefiner(b, MaxDepth) # NoStr) =>
            /\ Rewritten(f, j)
            /\ Len(ReplacementOf(f, j)) = 1
            /\ ReplacementOf(f, j)[1].kind = "import"
            /\ ReplacementOf(f, j)[1].clause = "ns"
            /\ ReplacementOf(f, j)[1].ns = project[f][j].ns
            /\ resolveModule(ReplacementOf(f, j)[1].spec) = SoleDefiner(b, MaxDepth)

\* the barrel has two or more internal export entries
MultiDefiner(b) == Len(SelectSeq(buildExportMap(project[b]), IsLocalExport)) >= 2

\* C13: with unsafe mode off, a namespace import from a barrel with two or
\* more internal definers is not rewritten, and the barrel is not reported in
\* `deleted` but in `preserved` with reason namespace-import naming that
\* consumer, whatever other imports of the same barrel are rewritten.
C13_NamespaceImportKeepsBarrel ==
  Done =>
    \A b \in Files : \A f \in Files :
      (Visits(f, b) /\ ~opts.unsafeNamespace /\ f \notin env.unreadable
         /\ DynamicImporters(b) = {}) =>
        \A j \in StaticStmts(f, b) :
          (project[f][j].kind = "import" /\ project[f][j].clause = "ns" /\ MultiDefiner(b)) =>
            /\ ~Rewritten(f, j)
            /\ b \notin DeletedSet
            /\ \E q \in 1..Len(preserved) :
                 /\ preserved[q].path = b
                 /\ preserved[q].reason = "namespace-import"
                 /\ f \in preserved[q].consumers

\* the run is a dry run: `write` is false or `check` is true
DryMode == ~opts.write \/ opts.check

\* C14: when `write` is false or `check` is true the run writes no file and
\* unlinks no file, and every file for which replacements were produced is
\* reported in `modified`.
C14_DryRunTouchesNoFile ==
  DryMode =>
    /\ disk.written = {}
    /\ disk.removed = {}
    /\ \A f \in Files : content[f] # <<>> => f \in ModifiedSet

\* a finished run with `check` set (and `write` set) that reports modified
\* files and deleted barrels
C14_Witness ==
  Done /\ opts.check /\ opts.write /\ modified # <<>> /\ deleted # <<>>

\* C15: a dry run and a run with write of the same project and options report
\* the same set of modified paths and the same set of deleted paths.
C15_DryAndWriteReportSame ==
  (Done /\ dryRun.ran) =>
    /\ ModifiedSet = dryRun.modified
    /\ DeletedSet = dryRun.deleted

\* the processing of file f has been carried out
Processed(f) == \E q \in 1..(idx - 1) : files[q] = f

\* the local names that the rewrites planned for statement j of f provide
PlanBinds(f, j) ==
  UNION { {ElemName(planTargets(plan[f], j)[q].rw.named[e]) :
             e \in 1..Len(planTargets(plan[f], j)[q].rw.named)}
          \cup {planTargets(plan[f], j)[q].rw.defaultName,
                planTargets(plan[f], j)[q].rw.reExportedNs} :
          q \in 1..Len(planTargets(plan[f], j)) }

\* C16: tracing the named and default bindings requested from a barrel always
\* returns, and each requested binding is then either part of the rewrites
\* planned for its statement or recorded in untraceableImports.
C16_TracingTerminatesAndAccounts ==
  /\ phase # "diverged"
  /\ \A b \in Files : \A f \in Files :
       (Visits(f, b) /\ Processed(f) /\ f \notin env.unreadable) =>
         \A j \in StaticStmts(f, b) :
           /\ \A e \in 1..Len(project[f][j].named) :
                \/ ElemName(project[f][j].named[e]) \in PlanBinds(f, j)
                \/ [barrelPath |-> b, consumerPath |-> f,
                    name |-> project[f][j].named[e].name] \in SeqToSet(untraceableImports)
           /\ project[f][j].dflt # NoStr =>
                \/ project[f][j].dflt \in PlanBinds(f, j)
                \/ [barrelPath |-> b, consumerPath |-> f, name |-> "default"]
                     \in SeqToSet(untraceableImports)

\* files whose reading the run attempts
FilesRead ==
  ProcessedFiles
  \cup SeqToSet(opts.only)
  \cup (IF opts.only = <<>> THEN SeqToSet(nonTsFiles) ELSE {})

\* C17: no failure on a single file aborts the run: the run never rejects on
\* a file it cannot read, and when it is done every file of the list has been
\* visited and every file that could not be read, written or unlinked is
\* recorded in the errors.
C17_FileFailuresDoNotAbort ==
  /\ phase # "rejected"
  /\ Done =>
       /\ idx > Len(files)
       /\ \A f \in env.unreadable \cap FilesRead : f \in SeqToSet(errors)
       /\ \A f \in env.writeFails :
            (sideEffects /\ content[f] # <<>>) => f \in SeqToSet(errors)
       /\ \A b \in env.unlinkFails \cap DeletedSet : sideEffects => b \in SeqToSet(errors)

\* the barrel is registered and lies under the base directory, outside ignored paths
InScope(b) == has(tracker, b) /\ startsWithBase(b) /\ ~isIgnoredPath(b)

\* C18: every registered barrel in scope is reported exactly once in `deleted`
\* or in one or more entries of `preserved`, never in both and never in neither.
C18_ExactlyOneBucket ==
  Done =>
    \A b \in Files :
      InScope(b) =>
        /\ (b \in DeletedSet) # (ReasonsOf(b) # {})
        /\ Cardinality({q \in 1..Len(deleted) : deleted[q] = b}) <= 1

\* a finished run that reports one registered barrel in `deleted` and another
\* one in `preserved`
C18_Witness ==
  /\ Done
  /\ \E b1 \in Files : \E b2 \in Files :
       /\ InScope(b1) /\ InScope(b2)
       /\ b1 \in DeletedSet
       /\ ReasonsOf(b2) # {}

\* consumers of b that were neither rewritten nor reported deleted themselves
OpenConsumers(b) ==
  {c \in tracker.consumers[b] : c \notin tracker.rewrittenConsumers[b] /\ c \notin DeletedSet}

\* the entries of `preserved` for b
EntriesOf(b) == { preserved[q] : q \in { r \in 1..Len(preserved) : preserved[r].path = b } }

\* readable processed files that import b dynamically
DynamicConsumers(b) == DynamicImporters(b) \ env.unreadable

\* files that are not JavaScript/TypeScript sources
NonScriptFiles == {Vue}

\* the entries owed to the open consumers of b
ExpectedEntries(b) ==
  (IF OpenConsumers(b) \cap NonScriptFiles # {}
   THEN {[path |-> b, reason |-> "non-ts-import",
          consumers |-> OpenConsumers(b) \cap NonScriptFiles]}
   ELSE {})
  \cup
  (IF OpenConsumers(b) \ NonScriptFiles # {}
   THEN {[path |-> b, reason |-> "namespace-import",
          consumers |-> OpenConsumers(b) \ NonScriptFiles]}
   ELSE {})

\* C19: a registered barrel that is not deleted is reported with
\* dynamic-import alone if it has a dynamic consumer; otherwise with skip
\* alone if it is skipped or an entry point; otherwise with non-ts-import
\* listing its open consumers that are not script files and/or
\* namespace-import listing its open consumers that are script files.
C19_ReasonPriority ==
  Done =>
    \A b \in Files :
      (InScope(b) /\ b \notin DeletedSet) =>
        /\ Cardinality({q \in 1..Len(preserved) : preserved[q].path = b})
             = Cardinality(EntriesOf(b))
        /\ IF DynamicConsumers(b) # {}
           THEN ReasonsOf(b) = {"dynamic-import"}
           ELSE IF Protected(b)
           THEN ReasonsOf(b) = {"skip"}
           ELSE EntriesOf(b) = ExpectedEntries(b)

\* a finished run that reports a barrel which is both protected and
\* dynamically imported
C19_Witness ==
  /\ Done
  /\ \E b \in Files :
       /\ InScope(b) /\ b \notin DeletedSet
       /\ DynamicConsumers(b) # {}
       /\ Protected(b)

\* the file has at least one statement and holds nothing but `export ... from`
OnlyReExports(stmts) ==
  /\ Len(stmts) > 0
  /\ \A j \in 1..Len(stmts) : stmts[j].kind = "export" /\ stmts[j].spec # NoStr

\* C20: an analyzed file is classified as a barrel iff it has at least one
\* top-level statement and every top-level statement is a re-export with a
\* module specifier.
C20_BarrelIffOnlyReExports ==
  \A f \in Files :
    fileCache[f] = "analyzed" =>
      (analyzeFile(f, fileCache).isBarrel <=> OnlyReExports(project[f]))

\* the processing of f was started and did not complete: f could not be
\* read, or the run had to write its rewritten text and the write failed
ProcessingFailed(f) ==
  /\ f \in ProcessedFiles
  /\ \/ f \in env.unreadable
     \/ f \in env.writeFails /\ opts.write /\ ~opts.check /\ plan[f] # <<>>

\* C21: a consumer whose processing failed is absent from `modified`, and no
\* barrel reported in `deleted` has it among its rewritten consumers.
C21_FailedConsumerNotCounted ==
  Done =>
    \A f \in Files :
      ProcessingFailed(f) =>
        /\ f \notin ModifiedSet
        /\ \A b \in DeletedSet : f \notin tracker.rewrittenConsumers[b]

\* C22: every span of a rewrite plan maps to at least one target, and every
\* replaced statement is replaced by at least one statement.
C22_NoSpanWithoutTarget ==
  \A f \in Files :
    /\ \A e \in 1..Len(plan[f]) : plan[f][e].targets # <<>>
    /\ \A e \in 1..Len(content[f]) : content[f][e].stmts # <<>>

\* C23: a star re-export that is not type-only is replaced by star re-exports
\* that are not type-only.
C23_StarReExportStaysValue ==
  \A f \in Files : \A e \in 1..Len(content[f]) :
    LET original == project[f][content[f][e].key] IN
    (original.kind = "export" /\ original.clause = "star" /\ ~original.typeOnly) =>
      \A q \in 1..Len(content[f][e].stmts) :
        /\ content[f][e].stmts[q].kind = "export"
        /\ content[f][e].stmts[q].clause = "star"
        /\ ~content[f][e].stmts[q].typeOnly

\* the name was recorded as untraceable for consumer f and barrel b
Untraceable(b, f, n) ==
  [barrelPath |-> b, consumerPath |-> f, name |-> n] \in SeqToSet(untraceableImports)

\* positions of the replacement statements that hold the named binding nm
HoldersOfNamed(stmts, nm) ==
  { q \in 1..Len(stmts) :
      \E r \in 1..Len(stmts[q].named) :
        stmts[q].named[r].name = nm.name /\ stmts[q].named[r].alias = nm.alias }

\* positions of the replacement statements that bind the local name d, as a
\* default import or as the alias of a named binding
HoldersOfLocal(stmts, d) ==
  { q \in 1..Len(stmts) :
      \/ stmts[q].dflt = d
      \/ \E r \in 1..Len(stmts[q].named) : stmts[q].named[r].alias = d }

\* C24: the statements that replace an import statement target pairwise
\* distinct modules; every resolved named binding of the statement is found,
\* with its imported name and local alias, in exactly one of them, and the
\* local name of a resolved default binding is bound by exactly one of them.
C24_BindingsGroupedByTarget ==
  Done =>
    \A b \in Files : \A f \in Files :
      Visits(f, b) =>
        \A j \in StaticStmts(f, b) :
          (project[f][j].kind = "import" /\ project[f][j].clause # "ns" /\ Rewritten(f, j)) =>
            /\ \A q, r \in 1..Len(ReplacementOf(f, j)) :
                 q # r => ReplacementOf(f, j)[q].spec # ReplacementOf(f, j)[r].spec
            /\ \A e \in 1..Len(project[f][j].named) :
                 ~Untraceable(b, f, project[f][j].named[e].name) =>
                   Cardinality(HoldersOfNamed(ReplacementOf(f, j), project[f][j].named[e])) = 1
            /\ (project[f][j].dflt # NoStr /\ ~Untraceable(b, f, "default")) =>
                 Cardinality(HoldersOfLocal(ReplacementOf(f, j), project[f][j].dflt)) = 1

\* the binding with local name l is type-only in statement o, by the statement's
\* own `type` modifier or by the modifier of its specifier
TypeOnlyIn(o, l) ==
  \/ o.typeOnly
  \/ \E e \in 1..Len(o.named) : ElemName(o.named[e]) = l /\ o.named[e].isType

\* local names bound by the default and named bindings of a statement
LocalsOf(s) ==
  (IF s.dflt # NoStr THEN {s.dflt} ELSE {})
  \cup { ElemName(s.named[r]) : r \in 1..Len(s.named) }

\* the statement is an import or re-export with default or named bindings
HasBindings(s) ==
  s.kind \in {"import", "export"} /\ s.clause \in {"named", "none"} /\ LocalsOf(s) # {}

\* C25: a replacement statement carries the statement-level `type` modifier
\* exactly when every binding in it was type-only in the original statement;
\* when it does not, a named binding carries the specifier-level modifier
\* exactly when it was type-only in the original, and its default binding was
\* not type-only in the original.
C25_TypeOnlyMarkersKept ==
  \A f \in ModifiedSet : \A e \in 1..Len(content[f]) :
    LET o == project[f][content[f][e].key] IN
    HasBindings(o) =>
      \A q \in 1..Len(content[f][e].stmts) :
        LET s == content[f][e].stmts[q] IN
        HasBindings(s) =>
          /\ s.typeOnly <=> (\A l \in LocalsOf(s) : TypeOnlyIn(o, l))
          /\ ~s.typeOnly =>
               /\ \A r \in 1..Len(s.named) :
                    s.named[r].isType <=> TypeOnlyIn(o, ElemName(s.named[r]))
               /\ s.dflt # NoStr => ~TypeOnlyIn(o, s.dflt)

\* the statements of a text with every span of `spans` replaced at once by its
\* replacement statements, and every other statement kept
RECURSIVE spliceFrom(_, _, _)
spliceFrom(stmts, spans, j) ==
  IF j > Len(stmts) THEN <<>>
  ELSE (IF IndexOf(spans, j) # 0 THEN spans[IndexOf(spans, j)].stmts ELSE <<stmts[j]>>)
       \o spliceFrom(stmts, spans, j + 1)

ReExportTargets(b) ==
  { resolveModule(project[b][j].spec) :
      j \in { q \in 1..Len(project[b]) :
                project[b][q].kind = "export" /\ project[b][q].spec # NoStr } }
  \cap Files

\* the barrels reached from the barrels of `frontier` through re-exports
RECURSIVE BarrelsFrom(_, _)
BarrelsFrom(frontier, seen) ==
  IF frontier = {} THEN seen
  ELSE LET next == { t \in UNION { ReExportTargets(x) : x \in frontier } : IsBarrelFile(t) }
       IN BarrelsFrom(next \ (seen \cup frontier), seen \cup frontier)

\* the non-barrel files that b and the barrels reached from it re-export from
StarDefiners(b) ==
  { t \in UNION { ReExportTargets(x) : x \in BarrelsFrom({b}, {}) } : ~IsBarrelFile(t) }

\* every import or re-export statement of f is a star re-export
OnlyStarRequests(f) ==
  \A j \in 1..Len(project[f]) :
    (project[f][j].kind \in {"import", "export"} /\ project[f][j].spec # NoStr) =>
      project[f][j].kind = "export" /\ project[f][j].clause = "star"

\* the targets planned for statement j of f
PlannedTargets(f, j) ==
  { planTargets(plan[f], j)[q].key : q \in 1..Len(planTargets(plan[f], j)) }

Deletable(b, D) ==
  /\ tracker.dynamicConsumers[b] = {}
  /\ ~Protected(b)
  /\ \A c \in tracker.consumers[b] : c \in tracker.rewrittenConsumers[b] \/ c \in D

\* the least set of registered barrels closed under the rule, by iteration from D
RECURSIVE LeastDeleteSet(_)
LeastDeleteSet(D) ==
  LET next == D \cup { b \in SeqToSet(tracker.order) : Deletable(b, D) } IN
  IF next = D THEN D ELSE LeastDeleteSet(next)

\* the orders in which the registered barrels could have been registered
RegistrationOrders ==
  { s \in [1..Len(tracker.order) -> SeqToSet(tracker.order)] :
      \A q, r \in 1..Len(tracker.order) : q # r => s[q] # s[r] }

\* C28: the barrels reported in `deleted` are the least fixpoint of the rule,
\* and the fixpoint loop of classify computes that same set for every order
\* of registration of the barrels.
C28_DeleteSetIsLeastFixpoint ==
  Done =>
    /\ DeletedSet = LeastDeleteSet({})
    /\ \A s \in RegistrationOrders :
         classifyLoop([tracker EXCEPT !.order = s], {}) = DeletedSet

\* a finished run that deletes a barrel b1 together with a barrel b2 that is
\* an unrewritten consumer of b1 and was registered after b1
C28_Witness ==
  /\ Done
  /\ \E q, r \in 1..Len(tracker.order) :
       /\ q < r
       /\ tracker.order[q] \in DeletedSet
       /\ tracker.order[r] \in DeletedSet
       /\ tracker.order[r] \in tracker.consumers[tracker.order[q]]
       /\ tracker.order[r] \notin tracker.rewrittenConsumers[tracker.order[q]]

\* the paths selected with --only
Selected == SeqToSet(opts.only)

\* C29: in a run with a non-empty `only`, every barrel held by the tracker is a
\* selected path (so every deleted barrel is a selected path), nothing is
\* recorded for any other path, and every rewritten statement targets a
\* selected barrel.
C29_OnlyRestrictsTrackerAndRewrites ==
  (opts.only # <<>>) =>
    /\ SeqToSet(tracker.order) \subseteq Selected
    /\ \A p \in Files \ Selected :
         /\ tracker.consumers[p] = {}
         /\ tracker.rewrittenConsumers[p] = {}
         /\ tracker.dynamicConsumers[p] = {}
    /\ DeletedSet \subseteq Selected
    /\ \A f \in ModifiedSet : \A j \in 1..Len(project[f]) :
         Rewritten(f, j) =>
           /\ resolveModule(project[f][j].spec) \in Selected
           /\ has(tracker, resolveModule(project[f][j].spec))

\* a finished run with --only that rewrote a statement, deleted the selected
\* barrel, and left alone a statement of a processed file that imports a
\* barrel that was not selected
C29_Witness ==
  /\ Done
  /\ opts.only # <<>>
  /\ DeletedSet # {}
  /\ \E f \in ModifiedSet : \E j \in 1..Len(project[f]) : Rewritten(f, j)
  /\ \E f \in ProcessedFiles : \E j \in 1..Len(project[f]) :
       /\ ~Rewritten(f, j)
       /\ project[f][j].kind = "import"
       /\ resolveModule(project[f][j].spec) \notin Selected
       /\ IsBarrelFile(resolveModule(project[f][j].spec))

\* positions of the statements `export { ... } from "..."` of f that target module m
NamedExportsTo(f, m) ==
  { j \in 1..Len(project[f]) :
      /\ project[f][j].kind = "export"
      /\ project[f][j].clause = "named"
      /\ project[f][j].spec # NoStr
      /\ resolveModule(project[f][j].spec) = m }

\* the names that statement j of f exports
ExportedBy(f, j) == { ElemName(project[f][j].named[e]) : e \in DOMAIN project[f][j].named }

\* C30: in the export map of an analyzed file, each module that export
\* statements of the file target, internal path or external package, has
\* exactly one entry, and that entry holds the names of all these statements.
C30_ExportStatementsMerged ==
  \A f \in Files :
    fileCache[f] # "none" =>
      LET exports == analyzeFile(f, fileCache).exports IN
      \A m \in Files \cup IgnoredPaths \cup Externals :
        NamedExportsTo(f, m) # {} =>
          /\ Cardinality({ q \in 1..Len(exports) : exports[q].key = m }) = 1
          /\ \A j \in NamedExportsTo(f, m) :
               ExportedBy(f, j) \subseteq exports[IndexOf(exports, m)].exportedNames

====
